---- MODULE Spec2Model ----
(***************************************************************************)
(* Model of itms_simulation.py: the batch pipeline                         *)
(*   parse_event -> get_speed_limit -> evaluate_event -> main (fold+report) *)
(*                                                                         *)
(* A line of input is modelled as the sequence of its comma-separated      *)
(* fields (the result of line.split(",")); a field is a string of a finite *)
(* vocabulary.  str.strip, str.upper and float are modelled by what they   *)
(* return on that vocabulary.  A float is a fixed-point number with Scale  *)
(* units per km/h, or one of the non-finite values inf, -inf, nan.         *)
(***************************************************************************)
EXTENDS Integers, Sequences, FiniteSets, TLC

VARIABLES stdin, input_lines, pc, idx, evt, result,
          vehicles, overall_counts, total_fines, out

vars == <<stdin, input_lines, pc, idx, evt, result,
          vehicles, overall_counts, total_fines, out>>

(***************************************************************************)
(* Policy (module-level constants of the program)                          *)
(***************************************************************************)
DEFAULT_SPEED_LIMIT == 50
SPEED_TOLERANCE == 5
RED_LIGHT_FINE == 2000
SPEED_FINE_PER_KMPH == 100

LOCATION_SPEED_LIMITS ==
  ("MG_Road_01" :> 50) @@ ("Outer_Ring_2" :> 80) @@
  ("School_Zone_A" :> 30) @@ ("Highway_7" :> 100)

(***************************************************************************)
(* Bounds                                                                   *)
(***************************************************************************)
MaxLines == 3

(***************************************************************************)
(* Floats: fixed point, Scale units per km/h, plus inf, -inf and nan.      *)
(***************************************************************************)
Scale == 10

Fin(v) == [kind |-> "fin", val |-> v]
PosInf == [kind |-> "inf", val |-> 0]
NegInf == [kind |-> "-inf", val |-> 0]
NaN == [kind |-> "nan", val |-> 0]
ValueError == [kind |-> "ValueError", val |-> 0]

\* what float(s) returns for the strings of the vocabulary; a string that is
\* not a float literal raises ValueError
FloatLiterals ==
  ("68" :> Fin(680)) @@ ("55" :> Fin(550)) @@ ("95" :> Fin(950)) @@
  ("45" :> Fin(450)) @@ ("90" :> Fin(900)) @@ ("55.5" :> Fin(555)) @@
  ("55.1" :> Fin(551)) @@ ("56" :> Fin(560)) @@ ("35" :> Fin(350)) @@
  ("35.1" :> Fin(351)) @@ ("85" :> Fin(850)) @@ ("85.5" :> Fin(855)) @@
  ("105" :> Fin(1050)) @@ ("105.9" :> Fin(1059)) @@ ("0" :> Fin(0)) @@
  ("-10" :> Fin(-100)) @@ ("54.9" :> Fin(549)) @@
  ("inf" :> PosInf) @@ ("Infinity" :> PosInf) @@ ("-inf" :> NegInf) @@
  ("nan" :> NaN)

float(s) == IF s \in DOMAIN FloatLiterals THEN FloatLiterals[s] ELSE ValueError

\* speed > n  (float compared with an int; any comparison with nan is False)
FloatGt(x, n) ==
  CASE x.kind = "fin" -> x.val > n * Scale
    [] x.kind = "inf" -> TRUE
    [] OTHER -> FALSE

\* math.ceil of a fixed-point value
Ceil(v) == -((-v) \div Scale)

(***************************************************************************)
(* Strings: str.strip and str.upper on the vocabulary                      *)
(***************************************************************************)
Padded ==
  (" KA01CD5678 " :> "KA01CD5678") @@ (" 55.5 " :> "55.5") @@
  (" red " :> "red") @@ (" RED" :> "RED") @@ ("PASS " :> "PASS") @@
  ("  " :> "") @@ (" " :> "") @@ (" MG_Road_01" :> "MG_Road_01") @@
  (" 68" :> "68")

strip(s) == IF s \in DOMAIN Padded THEN Padded[s] ELSE s

LowerCased ==
  ("red" :> "RED") @@ ("Red" :> "RED") @@ ("green" :> "GREEN") @@
  ("pass" :> "PASS") @@ ("Pass" :> "PASS") @@ ("turn" :> "TURN") @@
  ("lane_change" :> "LANE_CHANGE") @@ ("amber" :> "AMBER") @@
  ("stop" :> "STOP")

upper(s) == IF s \in DOMAIN LowerCased THEN LowerCased[s] ELSE s

(***************************************************************************)
(* parse_event                                                              *)
(***************************************************************************)
None == [none |-> TRUE]

\* variant: a non-numeric speed field is read as 0 instead of rejected
parse_event_DefaultSpeed(line) ==
  LET parts == [k \in 1..Len(line) |-> strip(line[k])] IN
  IF Len(parts) < 6 THEN None
  ELSE LET speed == float(parts[4]) IN
       [timestamp |-> parts[1],
        vehicle_id |-> parts[2],
        location |-> parts[3],
        speed |-> IF speed = ValueError THEN Fin(0) ELSE speed,
        signal_state |-> upper(parts[5]),
        action |-> upper(parts[6])]

parse_event(line) ==
  LET parts == [k \in 1..Len(line) |-> strip(line[k])] IN
  IF Len(parts) < 6 THEN None
  ELSE LET speed == float(parts[4]) IN
       IF speed = ValueError THEN None
       ELSE [timestamp |-> parts[1],
             vehicle_id |-> parts[2],
             location |-> parts[3],
             speed |-> speed,
             signal_state |-> upper(parts[5]),
             action |-> upper(parts[6])]

(***************************************************************************)
(* get_speed_limit                                                          *)
(***************************************************************************)
get_speed_limit(location) ==
  IF location \in DOMAIN LOCATION_SPEED_LIMITS
  THEN LOCATION_SPEED_LIMITS[location]
  ELSE DEFAULT_SPEED_LIMIT

(***************************************************************************)
(* evaluate_event: returns the list of violations, or raises.              *)
(* math.ceil(inf) raises OverflowError.                                    *)
(***************************************************************************)
Returned(vs) == [status |-> "returned", violations |-> vs]
Raised(e) == [status |-> e, violations |-> <<>>]
NotEvaluated == [status |-> "none", violations |-> <<>>]

SpeedingTriggers(speed, speed_limit) ==
  FloatGt(speed, speed_limit + SPEED_TOLERANCE)

\* variant: the excess counted from limit + tolerance
OverRounded_FromThreshold(speed, speed_limit) ==
  Ceil(speed.val - (speed_limit + SPEED_TOLERANCE) * Scale)

\* over_rounded = math.ceil(evt["speed"] - speed_limit), for a finite speed
OverRounded(speed, speed_limit) == Ceil(speed.val - speed_limit * Scale)

SpeedingViolation(speed, speed_limit) ==
  LET over_rounded == OverRounded(speed, speed_limit) IN
  [type |-> "SPEEDING",
   over |-> <<over_rounded>>,
   fine |-> over_rounded * SPEED_FINE_PER_KMPH,
   desc |-> <<"speed", speed, ">", "limit", speed_limit>>]

RedLightTriggers(e) == e.signal_state = "RED" /\ e.action = "PASS"

RedLightViolation ==
  [type |-> "RED_LIGHT",
   over |-> <<>>,
   fine |-> RED_LIGHT_FINE,
   desc |-> <<"Passed on RED">>]

\* variant: the red-light check comes first
evaluate_event_RedLightFirst(e) ==
  LET speed_limit == get_speed_limit(e.location)
      speeding == SpeedingTriggers(e.speed, speed_limit)
  IN
  IF speeding /\ e.speed.kind = "inf" THEN Raised("OverflowError")
  ELSE Returned(
         (IF RedLightTriggers(e) THEN <<RedLightViolation>> ELSE <<>>)
         \o
         (IF speeding THEN <<SpeedingViolation(e.speed, speed_limit)>> ELSE <<>>))

evaluate_event(e) ==
  LET speed_limit == get_speed_limit(e.location)
      speeding == SpeedingTriggers(e.speed, speed_limit)
  IN
  IF speeding /\ e.speed.kind = "inf" THEN Raised("OverflowError")
  ELSE Returned(
         (IF speeding THEN <<SpeedingViolation(e.speed, speed_limit)>> ELSE <<>>)
         \o
         (IF RedLightTriggers(e) THEN <<RedLightViolation>> ELSE <<>>))

(***************************************************************************)
(* main: aggregate state.  vehicles and overall_counts are defaultdicts;   *)
(* a dict iterates in insertion order, so each is a sequence of entries.   *)
(***************************************************************************)
HasKey(d, key) == \E k \in 1..Len(d) : d[k].key = key
IndexOf(d, key) == CHOOSE k \in 1..Len(d) : d[k].key = key

\* variant: a new vehicle goes to the front
TouchVehicle_Prepend(vs, vid) ==
  IF HasKey(vs, vid) THEN vs
  ELSE <<[key |-> vid, violations |-> <<>>, total_fine |-> 0]>> \o vs

\* vehicles[vid]: defaultdict inserts {"violations": [], "total_fine": 0}
\* at the end when the key is missing
TouchVehicle(vs, vid) ==
  IF HasKey(vs, vid) THEN vs
  ELSE Append(vs, [key |-> vid, violations |-> <<>>, total_fine |-> 0])

\* overall_counts[vtype]: defaultdict(int)
TouchCount(cs, vtype) ==
  IF HasKey(cs, vtype) THEN cs ELSE Append(cs, [key |-> vtype, cnt |-> 0])

InitialAgg == [vehicles |-> <<>>, overall_counts |-> <<>>, total_fines |-> 0]

\* variant: a red-light fine is not added to the global total
AddViolation_NoGlobalRedLight(agg, e, v) ==
  LET vs == TouchVehicle(agg.vehicles, e.vehicle_id)
      k == IndexOf(vs, e.vehicle_id)
      entry == [type |-> v.type, over |-> v.over, fine |-> v.fine,
                desc |-> v.desc, timestamp |-> e.timestamp,
                location |-> e.location]
      cs == TouchCount(agg.overall_counts, v.type)
      c == IndexOf(cs, v.type)
  IN
  [vehicles |->
     [vs EXCEPT ![k] = [@ EXCEPT !.violations = Append(@, entry),
                                 !.total_fine = @ + v.fine]],
   overall_counts |-> [cs EXCEPT ![c] = [@ EXCEPT !.cnt = @ + 1]],
   total_fines |-> IF v.type = "RED_LIGHT" THEN agg.total_fines
                   ELSE agg.total_fines + v.fine]

\* body of "for vtype, over, fine, desc in violations"
AddViolation(agg, e, v) ==
  LET vs == TouchVehicle(agg.vehicles, e.vehicle_id)
      k == IndexOf(vs, e.vehicle_id)
      entry == [type |-> v.type, over |-> v.over, fine |-> v.fine,
                desc |-> v.desc, timestamp |-> e.timestamp,
                location |-> e.location]
      cs == TouchCount(agg.overall_counts, v.type)
      c == IndexOf(cs, v.type)
  IN
  [vehicles |->
     [vs EXCEPT ![k] = [@ EXCEPT !.violations = Append(@, entry),
                                 !.total_fine = @ + v.fine]],
   overall_counts |-> [cs EXCEPT ![c] = [@ EXCEPT !.cnt = @ + 1]],
   total_fines |-> agg.total_fines + v.fine]

RECURSIVE AddViolations(_, _, _)
AddViolations(agg, e, violations) ==
  IF violations = <<>> THEN agg
  ELSE AddViolations(AddViolation(agg, e, Head(violations)), e,
                     Tail(violations))

\* variant: the vehicle's entry is looked up before "if violations"
Aggregate_AlwaysTouch(agg, e, violations) ==
  AddViolations([agg EXCEPT !.vehicles = TouchVehicle(@, e.vehicle_id)],
                e, violations)

\* "if violations: for ... in violations: ..."
Aggregate(agg, e, violations) ==
  IF violations # <<>> THEN AddViolations(agg, e, violations) ELSE agg

\* one iteration of "for line in input_lines"
LoopBody(agg, line) ==
  LET e == parse_event(line) IN
  IF e = None
  THEN [agg |-> agg, evt |-> None, result |-> NotEvaluated]
  ELSE LET r == evaluate_event(e) IN
       IF r.status = "returned"
       THEN [agg |-> Aggregate(agg, e, r.violations), evt |-> e, result |-> r]
       ELSE [agg |-> agg, evt |-> e, result |-> r]

(***************************************************************************)
(* sys.stdin.read().strip().splitlines(): leading and trailing blank lines *)
(* are removed (blank lines in the middle stay).                           *)
(***************************************************************************)
IsBlank(line) == Len(line) = 1 /\ strip(line[1]) = ""

RECURSIVE DropLeadingBlank(_)
DropLeadingBlank(lines) ==
  IF lines = <<>> THEN <<>>
  ELSE IF IsBlank(Head(lines)) THEN DropLeadingBlank(Tail(lines))
  ELSE lines

RECURSIVE DropTrailingBlank(_)
DropTrailingBlank(lines) ==
  IF lines = <<>> THEN <<>>
  ELSE IF IsBlank(lines[Len(lines)])
       THEN DropTrailingBlank(SubSeq(lines, 1, Len(lines) - 1))
  ELSE lines

strip_splitlines(text) == DropTrailingBlank(DropLeadingBlank(text))

(***************************************************************************)
(* Output.  A printed line is a record naming its kind and its values.     *)
(***************************************************************************)
SampleLines ==
  << <<"2025-11-05T09:12:33", "KA01AB1234", "MG_Road_01", "68", "RED", "PASS">>,
     <<"2025-11-05T09:13:10", "KA01CD5678", "MG_Road_01", "55", "GREEN", "PASS">>,
     <<"2025-11-05T09:15:00", "KA02EF9999", "Outer_Ring_2", "95", "GREEN", "PASS">>,
     <<"2025-11-05T09:16:20", "KA01AB1234", "School_Zone_A", "45", "GREEN", "PASS">> >>

UsageOutput ==
  <<[kind |-> "usage_hint"]>> \o
  [k \in 1..Len(SampleLines) |-> [kind |-> "sample", line |-> SampleLines[k]]]

ViolationLines(violations) ==
  [k \in 1..Len(violations) |->
     [kind |-> "violation",
      timestamp |-> violations[k].timestamp,
      location |-> violations[k].location,
      type |-> violations[k].type,
      over |-> IF violations[k].type = "SPEEDING"
               THEN violations[k].over ELSE <<>>,
      fine |-> violations[k].fine,
      desc |-> violations[k].desc]]

RECURSIVE ViolationsReport(_)
ViolationsReport(vs) ==
  IF vs = <<>> THEN <<>>
  ELSE (IF Head(vs).violations = <<>> THEN <<>>
        ELSE <<[kind |-> "vehicle", vid |-> Head(vs).key,
                total_fine |-> Head(vs).total_fine,
                count |-> Len(Head(vs).violations)]>>
             \o ViolationLines(Head(vs).violations)
             \o <<[kind |-> "blank"]>>)
       \o ViolationsReport(Tail(vs))

Dashboard(vs, cs, total) ==
  <<[kind |-> "dashboard_header"],
    [kind |-> "vehicle_count", n |-> Len(vs)],
    [kind |-> "total_fines", n |-> total]>>
  \o [k \in 1..Len(cs) |->
        [kind |-> "type_count", type |-> cs[k].key, cnt |-> cs[k].cnt]]
  \o <<[kind |-> "summary_header"]>>
  \o [k \in 1..Len(vs) |->
        [kind |-> "summary", vid |-> vs[k].key,
         count |-> Len(vs[k].violations), total_fine |-> vs[k].total_fine]]

ReportOutput(vs, cs, total) ==
  <<[kind |-> "report_header"]>> \o ViolationsReport(vs)
  \o Dashboard(vs, cs, total)

(***************************************************************************)
(* Inputs                                                                   *)
(***************************************************************************)
\* lines fed to main(): the four sample lines, a line of a vehicle that
\* commits no violation, malformed lines, a blank line, a line whose speed
\* is the float literal "inf", and a padded lower-case line with a 7th field
LinePool ==
  { SampleLines[1], SampleLines[2], SampleLines[3], SampleLines[4],
    <<"2025-11-05T09:11:00", "KA01AB1234", "Highway_7", "90", "green", "turn">>,
    <<"2025-11-05T09:17:00", "KA01CD5678", "MG_Road_01", "95">>,
    <<"2025-11-05T09:18:00", "KA01CD5678", "MG_Road_01", "fast", "RED", "PASS">>,
    <<"  ">>,
    <<"2025-11-05T09:19:00", "KA02EF9999", "Highway_7", "inf", "red", "pass">>,
    <<"2025-11-05T09:20:00", " KA01CD5678 ", "Unknown_Loc", " 55.5 ", " red ",
      "pass", "extra">> }

Texts == UNION { [1..n -> LinePool] : n \in 0..MaxLines }

\* fields of the single lines fed to parse_event and evaluate_event
Locations == {"MG_Road_01", "Outer_Ring_2", "School_Zone_A", "Highway_7",
              "Unknown_Loc", " MG_Road_01"}
Speeds == DOMAIN FloatLiterals \cup {"fast", "", " 68"}
Signals == {"RED", "red", "Red", " red ", "GREEN", "green", "amber"}
Actions == {"PASS", "pass", "PASS ", "TURN", "turn", "LANE_CHANGE", "stop"}
FieldCounts == {5, 6, 7}

SingleLines ==
  { SubSeq(<<"2025-11-05T09:12:33", "KA01AB1234", l, s, g, a, "extra">>, 1, n) :
      l \in Locations, s \in Speeds, g \in Signals, a \in Actions,
      n \in FieldCounts }

(***************************************************************************)
(* main() as a state machine                                                *)
(***************************************************************************)
Agg == [vehicles |-> vehicles, overall_counts |-> overall_counts,
        total_fines |-> total_fines]

InitLocals ==
  /\ input_lines = <<>>
  /\ idx = 1
  /\ evt = None
  /\ result = NotEvaluated
  /\ vehicles = InitialAgg.vehicles
  /\ overall_counts = InitialAgg.overall_counts
  /\ total_fines = InitialAgg.total_fines
  /\ out = <<>>

Init ==
  /\ stdin \in Texts
  /\ pc = "start"
  /\ InitLocals

\* input_lines = sys.stdin.read().strip().splitlines(); if not input_lines
ReadInput ==
  /\ pc = "start"
  /\ input_lines' = strip_splitlines(stdin)
  /\ pc' = IF input_lines' = <<>> THEN "usage" ELSE "loop"
  /\ UNCHANGED <<stdin, idx, evt, result, vehicles, overall_counts,
                 total_fines, out>>

\* the "if not input_lines" branch: print the hint and the samples, return
PrintUsage ==
  /\ pc = "usage"
  /\ out' = UsageOutput
  /\ pc' = "done"
  /\ UNCHANGED <<stdin, input_lines, idx, evt, result, vehicles,
                 overall_counts, total_fines>>

\* one iteration of the loop over input_lines; an exception raised by
\* evaluate_event propagates out of main()
LoopIteration ==
  /\ pc = "loop"
  /\ idx <= Len(input_lines)
  /\ LET b == LoopBody(Agg, input_lines[idx]) IN
       /\ evt' = b.evt
       /\ result' = b.result
       /\ vehicles' = b.agg.vehicles
       /\ overall_counts' = b.agg.overall_counts
       /\ total_fines' = b.agg.total_fines
       /\ IF b.result.status \in {"returned", "none"}
          THEN idx' = idx + 1 /\ pc' = "loop"
          ELSE idx' = idx /\ pc' = "crashed"
  /\ UNCHANGED <<stdin, input_lines, out>>

\* after the loop: the Violations Report and the Dashboard
PrintReport ==
  /\ pc = "loop"
  /\ idx > Len(input_lines)
  /\ out' = ReportOutput(vehicles, overall_counts, total_fines)
  /\ pc' = "done"
  /\ UNCHANGED <<stdin, input_lines, idx, evt, result, vehicles,
                 overall_counts, total_fines>>

Next == ReadInput \/ PrintUsage \/ LoopIteration \/ PrintReport

Spec == Init /\ [][Next]_vars

(***************************************************************************)
(* parse_event and evaluate_event applied to one line                      *)
(***************************************************************************)
InitEval ==
  /\ stdin \in { <<l>> : l \in SingleLines }
  /\ pc = "parse"
  /\ InitLocals

Parse ==
  /\ pc = "parse"
  /\ evt' = parse_event(stdin[1])
  /\ pc' = IF evt' = None THEN "rejected" ELSE "evaluate"
  /\ UNCHANGED <<stdin, input_lines, idx, result, vehicles, overall_counts,
                 total_fines, out>>

Evaluate ==
  /\ pc = "evaluate"
  /\ result' = evaluate_event(evt)
  /\ pc' = "evaluated"
  /\ UNCHANGED <<stdin, input_lines, idx, evt, vehicles, overall_counts,
                 total_fines, out>>

NextEval == Parse \/ Evaluate

EvalSpec == InitEval /\ [][NextEval]_vars

(***************************************************************************)
(* Vocabulary of the properties                                             *)
(***************************************************************************)
RECURSIVE SumTotalFine(_)
SumTotalFine(vs) ==
  IF vs = <<>> THEN 0 ELSE Head(vs).total_fine + SumTotalFine(Tail(vs))

TypesOf(violations) == [k \in 1..Len(violations) |-> violations[k].type]
HasType(violations, t) == \E k \in 1..Len(violations) : violations[k].type = t

\* the limit the policy gives a location: its entry of the table, else 50
LimitOf(location) ==
  IF location \in {"MG_Road_01", "Outer_Ring_2", "School_Zone_A", "Highway_7"}
  THEN LOCATION_SPEED_LIMITS[location] ELSE 50

\* m is the ceiling of d / Scale
IsCeiling(m, d) == m * Scale >= d /\ (m - 1) * Scale < d

\* the strings float() accepts
NumericStrings ==
  {"68", "55", "95", "45", "90", "55.5", "55.1", "56", "35", "35.1", "85",
   "85.5", "105", "105.9", "0", "-10", "54.9", "inf", "Infinity", "-inf",
   "nan"}

\* a malformed line: fewer than six fields, or a non-numeric fourth field
Malformed(line) == Len(line) < 6 \/ strip(line[4]) \notin NumericStrings
WellFormed(line) == ~Malformed(line)

\* the lines main() has gone through
Processed == SubSeq(input_lines, 1, idx - 1)

\* the aggregate main() builds from the lines, one after the other
RECURSIVE RunLines(_, _)
RunLines(agg, lines) ==
  IF lines = <<>> THEN agg
  ELSE RunLines(LoopBody(agg, Head(lines)).agg, Tail(lines))

InLoop == pc \in {"loop", "done", "crashed"} /\ input_lines # <<>>
Terminated == pc \in {"done", "crashed"}
AllBlank(text) == \A k \in 1..Len(text) : IsBlank(text[k])
ReportPrinted ==
  /\ \E k \in 1..Len(out) : out[k].kind = "report_header"
  /\ \E k \in 1..Len(out) : out[k].kind = "dashboard_header"

\* the violations a line produces (none when it is skipped or evaluation
\* raises)
ViolationsOfLine(line) ==
  LET e == parse_event(line) IN
  IF e = None THEN <<>> ELSE evaluate_event(e).violations
VidOfLine(line) == parse_event(line).vehicle_id

RECURSIVE Dedup(_, _)
Dedup(seq, seen) ==
  IF seq = <<>> THEN <<>>
  ELSE IF Head(seq) \in seen THEN Dedup(Tail(seq), seen)
  ELSE <<Head(seq)>> \o Dedup(Tail(seq), seen \cup {Head(seq)})

ViolatingLine(line) == ViolationsOfLine(line) # <<>>
ParsedLine(line) == parse_event(line) # None

VidsOf(lines) == [k \in 1..Len(lines) |-> VidOfLine(lines[k])]
Range(seq) == { seq[k] : k \in 1..Len(seq) }

\* vehicles in the order of their first violation
FirstViolationOrder(lines) ==
  Dedup(VidsOf(SelectSeq(lines, ViolatingLine)), {})
Violators(lines) == Range(FirstViolationOrder(lines))

InViolators(vid) == vid \in Violators(input_lines)

\* vehicles with a violation in the order of their first event in the input
FirstAppearanceOrder(lines) ==
  SelectSeq(Dedup(VidsOf(SelectSeq(lines, ParsedLine)), {}), InViolators)

OutOfKind(r) == r.kind = "vehicle"
OutSummary(r) == r.kind = "summary"
ReportVehicleOrder ==
  LET rs == SelectSeq(out, OutOfKind) IN [k \in 1..Len(rs) |-> rs[k].vid]
SummaryVehicleOrder ==
  LET rs == SelectSeq(out, OutSummary) IN [k \in 1..Len(rs) |-> rs[k].vid]

(***************************************************************************)
(* Properties                                                               *)
(***************************************************************************)

\* C1: after any prefix of the input, total_fines equals the sum of
\* total_fine over the entries of vehicles.
C1_TotalEqualsSum == total_fines = SumTotalFine(vehicles)

C1_Witness ==
  /\ pc = "loop" /\ idx = 3
  /\ Len(vehicles) = 2
  /\ total_fines = 5300
  /\ SumTotalFine(vehicles) = 5300

\* C2: evaluate_event emits SPEEDING for an event iff speed > limit + 5,
\* limit being the location's configured limit or 50; at speed = limit + 5
\* there is none.
C2_SpeedingIff ==
  pc = "evaluated" =>
    (HasType(result.violations, "SPEEDING")
       <=> FloatGt(evt.speed, LimitOf(evt.location) + 5))

\* C3: an emitted SPEEDING violation has magnitude ceil(speed - limit), from
\* the bare limit, and fine magnitude * 100; limit 50 and speed 68 give 18
\* and 1800.
C3_SpeedingFine ==
  pc = "evaluated" =>
    /\ \A k \in 1..Len(result.violations) :
         LET v == result.violations[k] IN
         v.type = "SPEEDING" =>
           /\ Len(v.over) = 1
           /\ IsCeiling(v.over[1],
                        evt.speed.val - LimitOf(evt.location) * Scale)
           /\ v.fine = v.over[1] * 100
    /\ (evt.speed = Fin(68 * Scale) /\ LimitOf(evt.location) = 50) =>
         /\ result.violations # <<>>
         /\ result.violations[1].type = "SPEEDING"
         /\ result.violations[1].over = <<18>>
         /\ result.violations[1].fine = 1800

C3_Witness ==
  /\ pc = "evaluated"
  /\ evt.speed = Fin(555) /\ evt.location = "Unknown_Loc"
  /\ HasType(result.violations, "SPEEDING")
  /\ result.violations[1].fine = 600

\* C4: for every parsed event evaluate_event emits RED_LIGHT iff the
\* upper-cased signal state is "RED" and the upper-cased action is "PASS";
\* its fine is 2000 and it has no magnitude, whatever the speed and location.
C4_RedLightIff ==
  pc = "evaluated" =>
    /\ HasType(result.violations, "RED_LIGHT")
         <=> (upper(strip(stdin[1][5])) = "RED"
              /\ upper(strip(stdin[1][6])) = "PASS")
    /\ \A k \in 1..Len(result.violations) :
         result.violations[k].type = "RED_LIGHT" =>
           /\ result.violations[k].fine = 2000
           /\ result.violations[k].over = <<>>

\* C5: evaluate_event returns a list for every event parse_event can return;
\* it never raises.
C5_NeverRaises == pc = "evaluated" => result.status = "returned"

\* C6: a malformed line yields no record and changes nothing; the aggregate
\* is the one main() builds from the well-formed lines alone.
C6_MalformedSkipped ==
  InLoop =>
    /\ \A k \in 1..Len(input_lines) :
         Malformed(input_lines[k]) => parse_event(input_lines[k]) = None
    /\ Agg = RunLines(InitialAgg, SelectSeq(Processed, WellFormed))

C6_Witness ==
  /\ pc = "done" /\ Len(input_lines) = 3
  /\ Malformed(input_lines[2]) /\ Len(input_lines[2]) >= 6
  /\ ViolatingLine(input_lines[1]) /\ ViolatingLine(input_lines[3])
  /\ ReportPrinted

\* C7 (as stated): the report and the summary list the vehicles that have a
\* violation in the order of their first appearance in the input.
C7_FirstAppearanceOrder ==
  (pc = "done" /\ ReportPrinted) =>
    /\ ReportVehicleOrder = FirstAppearanceOrder(input_lines)
    /\ SummaryVehicleOrder = FirstAppearanceOrder(input_lines)

\* C7 (amended): the report and the summary list the vehicles that have a
\* violation in the order of their first violation in the input.
C7_FirstViolationOrder ==
  (pc = "done" /\ ReportPrinted) =>
    /\ ReportVehicleOrder = FirstViolationOrder(input_lines)
    /\ SummaryVehicleOrder = FirstViolationOrder(input_lines)

C7_Witness ==
  /\ pc = "done" /\ ReportPrinted
  /\ Len(ReportVehicleOrder) = 2
  /\ FirstAppearanceOrder(input_lines) # FirstViolationOrder(input_lines)

\* C8: on empty or all-whitespace input main() prints the usage hint and the
\* four samples, evaluates nothing, leaves the aggregate initial and prints
\* no report; on any other input it prints the report sections.
C8_UsageOrReport ==
  Terminated =>
    IF AllBlank(stdin)
    THEN /\ out = UsageOutput
         /\ Len(SelectSeq(out, LAMBDA r : r.kind = "sample")) = 4
         /\ ~ReportPrinted
         /\ result = NotEvaluated
         /\ Agg = InitialAgg
    ELSE /\ ReportPrinted
         /\ \A k \in 1..Len(out) : out[k].kind \notin {"usage_hint", "sample"}

\* C9: vehicles has an entry for a vehicle iff a processed event of it
\* produced a violation; every entry has violations; the dashboard's vehicle
\* count is the number of distinct vehicles with a violation.
C9_EntriesAreViolators ==
  /\ \A k \in 1..Len(vehicles) :
       /\ vehicles[k].violations # <<>>
       /\ vehicles[k].key \in Violators(Processed)
       /\ \A j \in 1..Len(vehicles) : vehicles[j].key = vehicles[k].key => j = k
  /\ \A vid \in Violators(Processed) : HasKey(vehicles, vid)
  /\ (pc = "done" /\ ReportPrinted) =>
       \A k \in 1..Len(out) :
         out[k].kind = "vehicle_count" =>
           out[k].n = Cardinality(Violators(input_lines))

C9_Witness ==
  /\ pc = "done" /\ ReportPrinted
  /\ Len(vehicles) = 1
  /\ Cardinality(Range(VidsOf(SelectSeq(input_lines, ParsedLine)))) = 3

\* C10: evaluate_event returns at most one SPEEDING and at most one
\* RED_LIGHT, SPEEDING first; main() appends them to the vehicle's record in
\* that order; the first sample line alone gives SPEEDING (18, 1800) then
\* RED_LIGHT (2000), total 3800.
C10_SpeedingBeforeRedLight ==
  /\ (InLoop /\ result.status = "returned") =>
       /\ TypesOf(result.violations) \in
            { <<>>, <<"SPEEDING">>, <<"RED_LIGHT">>,
              <<"SPEEDING", "RED_LIGHT">> }
       /\ result.violations # <<>> =>
            LET rec == vehicles[IndexOf(vehicles, evt.vehicle_id)].violations
                n == Len(result.violations)
                last == SubSeq(rec, Len(rec) - n + 1, Len(rec))
            IN /\ Len(rec) >= n
               /\ \A k \in 1..n :
                    /\ last[k].type = result.violations[k].type
                    /\ last[k].over = result.violations[k].over
                    /\ last[k].fine = result.violations[k].fine
  /\ (pc = "done" /\ input_lines = <<SampleLines[1]>>) =>
       /\ Len(vehicles) = 1
       /\ vehicles[1].key = "KA01AB1234"
       /\ TypesOf(vehicles[1].violations) = <<"SPEEDING", "RED_LIGHT">>
       /\ vehicles[1].violations[1].over = <<18>>
       /\ vehicles[1].violations[1].fine = 1800
       /\ vehicles[1].violations[2].fine = 2000
       /\ vehicles[1].total_fine = 3800

C10_Witness ==
  /\ pc = "done" /\ input_lines = <<SampleLines[1]>>
  /\ Len(stdin) = 3
  /\ vehicles[1].total_fine = 3800

====
